---- MODULE Spec2Model ----
(***************************************************************************)
(* The stream-unread index of src/src/unread/unreadModel.js: the reducer  *)
(* streamsReducer over Immutable.Map<streamId, Map<topic, List<id>>>, its  *)
(* helpers (updateAndPrune, updateAllAndPrune, setUnion, deleteMessagesIn, *)
(* deleteMessages), and the events it handles; the aggregate `reducer`    *)
(* over the four sub-reducers; the getter getUnreadCountForTopic.          *)
(*                                                                         *)
(* Spec is the store calling streamsReducer, SpecAggregate the store       *)
(* calling `reducer`, SpecUnion a call of setUnion on its own.             *)
(*                                                                         *)
(* An Immutable.Map is a function whose DOMAIN is the set of keys present; *)
(* an Immutable.List is a sequence.  A field that may be undefined in the  *)
(* source is None (absent) or Some(v).                                     *)
(***************************************************************************)
EXTENDS Integers, Sequences, FiniteSets, TLC

\* Bounds of the model.
MaxId == 3      \* message IDs are 1..MaxId
MaxLen == 2     \* longest ID list an event carries
MaxElem == 4    \* elements of the lists setUnion is applied to on its own

Ids == 1..MaxId
Streams == {1, 2}
Topics == {"a", "b"}

VARIABLES
    state,      \* the UnreadStreamsState the store holds
    action,     \* the action of the last streamsReducer call
    prev,       \* the state that call was given
    outcome,    \* "returned" or "threw": how that call ended
    pc,         \* "idle": waiting for an action; "done": a call has just ended
    same,       \* the object that call returned is the object it was given (===)
    hasState,   \* `reducer` is given an aggregate (its `state` is not void)
    nextState,  \* None, or Some of the aggregate `reducer` has built
    returned,   \* None, or Some of the aggregate `reducer` has returned
    count,      \* None, or Some of a getUnreadCountForTopic call and its result
    unionIn,    \* <<xs, ys>>: the arguments of a direct setUnion call
    unionOut    \* None, or Some(result) of that call

vars == <<state, action, prev, outcome, pc, same, hasState, nextState, returned,
          count, unionIn, unionOut>>

None == <<>>
Some(v) == <<v>>

Range(seq) == {seq[i] : i \in 1..Len(seq)}

\* ------------------------------------------------------------------------
\* Immutable.Map and Immutable.List operations, by value.

EmptyMap == <<>>
EmptyList == <<>>

MapSet(map, key, value) ==
    [k \in DOMAIN map \cup {key} |-> IF k = key THEN value ELSE map[k]]

MapDelete(map, key) == [k \in DOMAIN map \ {key} |-> map[k]]

\* state.getIn([streamId, topic], notSet)
getIn(map, streamId, topic, notSet) ==
    IF streamId \in DOMAIN map /\ topic \in DOMAIN map[streamId]
    THEN map[streamId][topic]
    ELSE notSet

\* state.updateIn([streamId, topic], updater), with newValue the updater's
\* result on getIn(map, streamId, topic, <the updater's default>); absent maps
\* on the path are created.
updateIn(map, streamId, topic, newValue) ==
    LET inner == IF streamId \in DOMAIN map THEN map[streamId] ELSE EmptyMap
    IN MapSet(map, streamId, MapSet(inner, topic, newValue))

RECURSIVE insertSorted(_, _)
insertSorted(sorted, v) ==
    IF sorted = <<>> THEN <<v>>
    ELSE IF v < Head(sorted) THEN <<v>> \o sorted
    ELSE <<Head(sorted)>> \o insertSorted(Tail(sorted), v)

\* List#sort() with Immutable's default comparator (a > b ? 1 : a < b ? -1 : 0),
\* which orders numbers numerically; the sort is stable and keeps duplicates.
sortList_Unsorted(list) == list

RECURSIVE sortList(_)
sortList(list) ==
    IF list = <<>> THEN <<>>
    ELSE insertSorted(sortList(SubSeq(list, 1, Len(list) - 1)), list[Len(list)])

\* ------------------------------------------------------------------------
\* updateAndPrune(map, zero, key, updater), with newValue == updater(value).
\* The empty Map and the empty List are singletons of the library, so the
\* source's `newValue === zero` is equality with the empty collection.
updateAndPrune(map, zero, key, newValue) ==
    IF newValue = zero THEN MapDelete(map, key)
    ELSE IF key \in DOMAIN map /\ newValue = map[key] THEN map
    ELSE MapSet(map, key, newValue)

\* updateAll(map, updater) of the source, which prunes nothing.
updateAll(map, zero, newValues) == [k \in DOMAIN map |-> newValues[k]]

\* updateAllAndPrune(map, zero, updater), with newValues[k] == updater(map[k]).
updateAllAndPrune(map, zero, newValues) ==
    [k \in {key \in DOMAIN map : newValues[key] # zero}
        |-> newValues[k]]

\* The merge without its branch for x === y.
RECURSIVE setUnionLoop_NoTie(_, _, _, _, _)
setUnionLoop_NoTie(xs, ys, i, j, result) ==
    IF i <= Len(xs) /\ j <= Len(ys)
    THEN IF xs[i] < ys[j]
         THEN setUnionLoop_NoTie(xs, ys, i + 1, j, Append(result, xs[i]))
         ELSE setUnionLoop_NoTie(xs, ys, i, j + 1, Append(result, ys[j]))
    ELSE IF i <= Len(xs)
    THEN setUnionLoop_NoTie(xs, ys, i + 1, j, Append(result, xs[i]))
    ELSE IF j <= Len(ys)
    THEN setUnionLoop_NoTie(xs, ys, i, j + 1, Append(result, ys[j]))
    ELSE result

\* The merge without its last loop, which takes what is left of ys.
RECURSIVE setUnionLoop_NoRestOfYs(_, _, _, _, _)
setUnionLoop_NoRestOfYs(xs, ys, i, j, result) ==
    IF i <= Len(xs) /\ j <= Len(ys)
    THEN IF xs[i] < ys[j]
         THEN setUnionLoop_NoRestOfYs(xs, ys, i + 1, j, Append(result, xs[i]))
         ELSE IF xs[i] # ys[j]
         THEN setUnionLoop_NoRestOfYs(xs, ys, i, j + 1, Append(result, ys[j]))
         ELSE setUnionLoop_NoRestOfYs(xs, ys, i + 1, j + 1, Append(result, xs[i]))
    ELSE IF i <= Len(xs)
    THEN setUnionLoop_NoRestOfYs(xs, ys, i + 1, j, Append(result, xs[i]))
    ELSE result

\* setUnion's loops: i and j are the positions of the current heads x and y
\* (xs.get(i) is undefined from Len(xs) + 1 on).
RECURSIVE setUnionLoop(_, _, _, _, _)
setUnionLoop(xs, ys, i, j, result) ==
    IF i <= Len(xs) /\ j <= Len(ys)
    THEN IF xs[i] < ys[j]
         THEN setUnionLoop(xs, ys, i + 1, j, Append(result, xs[i]))
         ELSE IF xs[i] # ys[j]
         THEN setUnionLoop(xs, ys, i, j + 1, Append(result, ys[j]))
         ELSE setUnionLoop(xs, ys, i + 1, j + 1, Append(result, xs[i]))
    ELSE IF i <= Len(xs)
    THEN setUnionLoop(xs, ys, i + 1, j, Append(result, xs[i]))
    ELSE IF j <= Len(ys)
    THEN setUnionLoop(xs, ys, i, j + 1, Append(result, ys[j]))
    ELSE result

setUnion(xs, ys) == setUnionLoop(xs, ys, 1, 1, <<>>)

\* deleteMessagesIn taking nothing out.
deleteMessagesIn_KeepsAll(map, streamId, topic, ids) == map

deleteMessagesIn(map, streamId, topic, ids) ==
    LET perStream == IF streamId \in DOMAIN map THEN map[streamId] ELSE EmptyMap
        perTopic == IF topic \in DOMAIN perStream THEN perStream[topic] ELSE EmptyList
        newPerTopic == SelectSeq(perTopic, LAMBDA id : id \notin ids)
    IN updateAndPrune(map, EmptyMap, streamId,
                      updateAndPrune(perStream, EmptyList, topic, newPerTopic))

\* deleteMessages with `filter` where the source has `filterNot`.
deleteMessages_KeepsDeleted(map, ids) ==
    LET idSet == Range(ids)
        newPerStream(perStream) ==
            updateAllAndPrune(perStream, EmptyList,
                [t \in DOMAIN perStream |->
                    SelectSeq(perStream[t], LAMBDA id : id \in idSet)])
    IN updateAllAndPrune(map, EmptyMap,
            [s \in DOMAIN map |-> newPerStream(map[s])])

\* deleteMessages dropping from each list only the element `find` returned.
deleteMessages_FoundOnly(map, ids) ==
    LET idSet == Range(ids)
        toDelete(id) == id \in idSet
        firstFound(perTopic) ==
            {i \in 1..Len(perTopic) :
                /\ toDelete(perTopic[i])
                /\ \A j \in 1..(i - 1) : ~toDelete(perTopic[j])}
        newPerTopic(perTopic) ==
            [i \in 1..(Len(perTopic) - Cardinality(firstFound(perTopic))) |->
                IF \E k \in firstFound(perTopic) : k <= i
                THEN perTopic[i + 1]
                ELSE perTopic[i]]
        newPerStream(perStream) ==
            updateAllAndPrune(perStream, EmptyList,
                [t \in DOMAIN perStream |-> newPerTopic(perStream[t])])
    IN updateAllAndPrune(map, EmptyMap,
            [s \in DOMAIN map |-> newPerStream(map[s])])

deleteMessages(map, ids) ==
    LET idSet == Range(ids)
        toDelete(id) == id \in idSet
        \* perTopic.find(toDelete): the first such element, tested for truthiness
        found(perTopic) ==
            \E i \in 1..Len(perTopic) :
                /\ toDelete(perTopic[i])
                /\ \A j \in 1..(i - 1) : ~toDelete(perTopic[j])
                /\ perTopic[i] # 0
        newPerTopic(perTopic) ==
            IF found(perTopic)
            THEN SelectSeq(perTopic, LAMBDA id : ~toDelete(id))
            ELSE perTopic
        newPerStream(perStream) ==
            updateAllAndPrune(perStream, EmptyList,
                [t \in DOMAIN perStream |-> newPerTopic(perStream[t])])
    IN updateAllAndPrune(map, EmptyMap,
            [s \in DOMAIN map |-> newPerStream(map[s])])

\* ------------------------------------------------------------------------
\* streamsReducer.

initialStreamsState == EmptyMap

\* REGISTER_COMPLETE: `data` grouped by stream_id in a DefaultMap of arrays of
\* [topic, List(unread_message_ids)] pairs, each array in the order of `data`.
byStream(data) ==
    [s \in {data[i].stream_id : i \in 1..Len(data)}
        |-> SelectSeq(data, LAMBDA e : e.stream_id = s)]

\* A Map built from the first pair alone.
mapOfPairs_FirstOnly(pairs) ==
    [t \in {pairs[1].topic} |-> pairs[1].unread_message_ids]

\* Immutable.Map(pairs): of two pairs with one key the later one stays.
mapOfPairs(pairs) ==
    [t \in {pairs[i].topic : i \in 1..Len(pairs)} |->
        LET last == CHOOSE i \in 1..Len(pairs) :
                        /\ pairs[i].topic = t
                        /\ \A j \in (i + 1)..Len(pairs) : pairs[j].topic # t
        IN pairs[last].unread_message_ids]

registerComplete(act) ==
    LET data == IF act.data.unread_msgs = None \/ act.data.unread_msgs[1].streams = None
                THEN <<>>
                ELSE act.data.unread_msgs[1].streams[1]
        grouped == byStream(data)
    IN [s \in DOMAIN grouped |-> mapOfPairs(grouped[s])]

\* The invariant placed before the test of message.type.
streamsReducerThrows_BeforeTypeCheck(map, act) ==
    /\ act.type = "EVENT_NEW_MESSAGE"
    /\ act.message.flags = None

\* invariant(message.flags, ...) of EVENT_NEW_MESSAGE fails: the reducer throws.
streamsReducerThrows(map, act) ==
    /\ act.type = "EVENT_NEW_MESSAGE"
    /\ act.message.type = "stream"
    /\ act.message.flags = None

\* EVENT_NEW_MESSAGE without the test for the "read" flag.
eventNewMessage_IgnoresRead(map, act) ==
    LET message == act.message
    IN IF message.type # "stream" THEN map
       ELSE updateIn(map, message.stream_id, message.subject,
                Append(getIn(map, message.stream_id, message.subject, EmptyList),
                       message.id))

eventNewMessage(map, act) ==
    LET message == act.message
    IN IF message.type # "stream" THEN map
       ELSE IF "read" \in Range(message.flags[1]) THEN map
       ELSE updateIn(map, message.stream_id, message.subject,
                Append(getIn(map, message.stream_id, message.subject, EmptyList),
                       message.id))

\* The loop over action.messages that fills newlyUnreadState.
RECURSIVE collectNewlyUnread(_, _, _)
collectNewlyUnread(messages, message_details, newlyUnreadState) ==
    IF messages = <<>> THEN newlyUnreadState
    ELSE LET id == Head(messages)
             isStream == /\ id \in DOMAIN message_details
                         /\ message_details[id].type = "stream"
             next == IF isStream
                     THEN LET message == message_details[id]
                          IN updateIn(newlyUnreadState, message.stream_id, message.topic,
                                 Append(getIn(newlyUnreadState, message.stream_id,
                                              message.topic, EmptyList), id))
                     ELSE newlyUnreadState
         IN collectNewlyUnread(Tail(messages), message_details, next)

sortAll_Unsorted(newlyUnreadState) == newlyUnreadState

\* newlyUnreadState.map(e => e.map(messages => messages.sort()))
sortAll(newlyUnreadState) ==
    [s \in DOMAIN newlyUnreadState |->
        [t \in DOMAIN newlyUnreadState[s] |-> sortList(newlyUnreadState[s][t])]]

\* oldTopicsMap.merge(newTopicsMap): the new list takes the place of the old.
mergeTopics_Overwrites(oldTopicsMap, newTopicsMap) ==
    [t \in DOMAIN oldTopicsMap \cup DOMAIN newTopicsMap |->
        IF t \in DOMAIN newTopicsMap THEN newTopicsMap[t] ELSE oldTopicsMap[t]]

\* oldTopicsMap.mergeWith((old, new) => setUnion(old, new), newTopicsMap)
mergeTopics(oldTopicsMap, newTopicsMap) ==
    [t \in DOMAIN oldTopicsMap \cup DOMAIN newTopicsMap |->
        IF t \in DOMAIN oldTopicsMap /\ t \in DOMAIN newTopicsMap
        THEN setUnion(oldTopicsMap[t], newTopicsMap[t])
        ELSE IF t \in DOMAIN newTopicsMap THEN newTopicsMap[t]
        ELSE oldTopicsMap[t]]

\* state.mergeWith((oldTopicsMap, newTopicsMap) => ..., newlyUnreadState)
mergeStreams(map, newlyUnreadState) ==
    [s \in DOMAIN map \cup DOMAIN newlyUnreadState |->
        IF s \in DOMAIN map /\ s \in DOMAIN newlyUnreadState
        THEN mergeTopics(map[s], newlyUnreadState[s])
        ELSE IF s \in DOMAIN newlyUnreadState THEN newlyUnreadState[s]
        ELSE map[s]]

\* EVENT_UPDATE_MESSAGE_FLAGS testing `all` after the branch for op "remove".
eventUpdateMessageFlags_AllAfterRemove(map, act) ==
    IF act.flag # "read" THEN map
    ELSE IF act.op = "remove"
    THEN IF act.message_details = None
         THEN map
         ELSE mergeStreams(map,
                  sortAll(collectNewlyUnread(act.messages, act.message_details[1],
                                             EmptyMap)))
    ELSE IF act.all THEN initialStreamsState
    ELSE deleteMessages(map, act.messages)

\* EVENT_UPDATE_MESSAGE_FLAGS taking an event without message_details for a
\* mark-as-read.
eventUpdateMessageFlags_NoDetailsCheck(map, act) ==
    IF act.flag # "read" THEN map
    ELSE IF act.all THEN initialStreamsState
    ELSE IF act.op = "remove" /\ act.message_details # None
    THEN mergeStreams(map,
             sortAll(collectNewlyUnread(act.messages, act.message_details[1],
                                        EmptyMap)))
    ELSE deleteMessages(map, act.messages)

eventUpdateMessageFlags(map, act) ==
    IF act.flag # "read" THEN map
    ELSE IF act.all THEN initialStreamsState
    ELSE IF act.op = "remove"
    THEN IF act.message_details = None
         THEN map      \* logging.warn, and the event is skipped
         ELSE mergeStreams(map,
                  sortAll(collectNewlyUnread(act.messages, act.message_details[1],
                                             EmptyMap)))
    ELSE deleteMessages(map, act.messages)

\* EVENT_UPDATE_MESSAGE moving the event's IDs whether or not the origin
\* held them.
eventUpdateMessage_MovesUnheld(map, act) ==
    IF act.move = None THEN map
    ELSE LET move == act.move[1]
             eventIds == Range(act.event.message_ids)
             deleted == deleteMessagesIn(map, move.orig_stream_id, move.orig_topic,
                                         eventIds)
         IN IF act.event.message_ids = <<>> THEN map
            ELSE updateIn(deleted, move.new_stream_id, move.new_topic,
                     sortList(getIn(deleted, move.new_stream_id, move.new_topic,
                                    EmptyList) \o act.event.message_ids))

\* EVENT_UPDATE_MESSAGE without the sort of the destination's list.
eventUpdateMessage_NoSort(map, act) ==
    IF act.move = None THEN map
    ELSE LET move == act.move[1]
             eventIds == Range(act.event.message_ids)
             matchingIds ==
                 SelectSeq(getIn(map, move.orig_stream_id, move.orig_topic, EmptyList),
                           LAMBDA id : id \in eventIds)
             deleted == deleteMessagesIn(map, move.orig_stream_id, move.orig_topic,
                                         eventIds)
         IN IF Len(matchingIds) = 0 THEN map
            ELSE updateIn(deleted, move.new_stream_id, move.new_topic,
                     getIn(deleted, move.new_stream_id, move.new_topic, EmptyList)
                         \o matchingIds)

\* EVENT_UPDATE_MESSAGE adding every ID of the event to the destination.
eventUpdateMessage_PushesEventIds(map, act) ==
    IF act.move = None THEN map
    ELSE LET move == act.move[1]
             eventIds == Range(act.event.message_ids)
             matchingIds ==
                 SelectSeq(getIn(map, move.orig_stream_id, move.orig_topic, EmptyList),
                           LAMBDA id : id \in eventIds)
             deleted == deleteMessagesIn(map, move.orig_stream_id, move.orig_topic,
                                         eventIds)
         IN IF Len(matchingIds) = 0 THEN map
            ELSE updateIn(deleted, move.new_stream_id, move.new_topic,
                     sortList(getIn(deleted, move.new_stream_id, move.new_topic,
                                    EmptyList) \o act.event.message_ids))

eventUpdateMessage(map, act) ==
    IF act.move = None THEN map
    ELSE LET move == act.move[1]
             eventIds == Range(act.event.message_ids)
             matchingIds ==
                 SelectSeq(getIn(map, move.orig_stream_id, move.orig_topic, EmptyList),
                           LAMBDA id : id \in eventIds)
             deleted == deleteMessagesIn(map, move.orig_stream_id, move.orig_topic,
                                         eventIds)
         IN IF Len(matchingIds) = 0 THEN map
            ELSE updateIn(deleted, move.new_stream_id, move.new_topic,
                     sortList(getIn(deleted, move.new_stream_id, move.new_topic,
                                    EmptyList) \o matchingIds))

streamsReducer(map, act) ==
    CASE act.type = "RESET_ACCOUNT_DATA" -> initialStreamsState
      [] act.type = "REGISTER_COMPLETE" -> registerComplete(act)
      [] act.type = "MESSAGE_FETCH_COMPLETE" -> map
      [] act.type = "EVENT_NEW_MESSAGE" -> eventNewMessage(map, act)
      [] act.type = "EVENT_MESSAGE_DELETE" -> deleteMessages(map, act.messageIds)
      [] act.type = "EVENT_UPDATE_MESSAGE_FLAGS" -> eventUpdateMessageFlags(map, act)
      [] act.type = "EVENT_UPDATE_MESSAGE" -> eventUpdateMessage(map, act)
      [] OTHER -> map

\* A streamsReducer that builds a new Map for MESSAGE_FETCH_COMPLETE.
returnsState_FetchCopies(map, act) ==
    CASE act.type = "EVENT_NEW_MESSAGE" ->
            \/ act.message.type # "stream"
            \/ "read" \in Range(act.message.flags[1])
      [] act.type = "EVENT_UPDATE_MESSAGE_FLAGS" ->
            \/ act.flag # "read"
            \/ ~act.all /\ act.op = "remove" /\ act.message_details = None
      [] act.type = "EVENT_UPDATE_MESSAGE" ->
            \/ act.move = None
            \/ \A id \in Range(act.event.message_ids) :
                   id \notin Range(getIn(map, act.move[1].orig_stream_id,
                                          act.move[1].orig_topic, EmptyList))
      [] act.type \in {"RESET_ACCOUNT_DATA", "REGISTER_COMPLETE",
                       "MESSAGE_FETCH_COMPLETE", "EVENT_MESSAGE_DELETE"} -> FALSE
      [] OTHER -> TRUE

\* The call leaves streamsReducer by one of its `return state;` statements.
returnsState(map, act) ==
    CASE act.type = "MESSAGE_FETCH_COMPLETE" -> TRUE
      [] act.type = "EVENT_NEW_MESSAGE" ->
            \/ act.message.type # "stream"
            \/ "read" \in Range(act.message.flags[1])
      [] act.type = "EVENT_UPDATE_MESSAGE_FLAGS" ->
            \/ act.flag # "read"
            \/ ~act.all /\ act.op = "remove" /\ act.message_details = None
      [] act.type = "EVENT_UPDATE_MESSAGE" ->
            \/ act.move = None
            \/ \A id \in Range(act.event.message_ids) :
                   id \notin Range(getIn(map, act.move[1].orig_stream_id,
                                          act.move[1].orig_topic, EmptyList))
      [] act.type \in {"RESET_ACCOUNT_DATA", "REGISTER_COMPLETE",
                       "EVENT_MESSAGE_DELETE"} -> FALSE
      [] OTHER -> TRUE

\* Whether the object streamsReducer returns is the object it was given:
\* it is after `return state;`, it is not when the value differs, and
\* otherwise the library's operations decide.
sameInstance(map, act) ==
    IF returnsState(map, act) THEN {TRUE}
    ELSE IF streamsReducer(map, act) # map THEN {FALSE}
    ELSE BOOLEAN

\* ------------------------------------------------------------------------
\* Getters.

\* getUnreadCountForTopic counting the topics of the stream.
getUnreadCountForTopic_CountsTopics(unread, streamId, topic) ==
    IF streamId \in DOMAIN unread.streams
    THEN Cardinality(DOMAIN unread.streams[streamId])
    ELSE 0

\* unread.streams.get(streamId)?.get(topic)?.size ?? 0
getUnreadCountForTopic(unread, streamId, topic) ==
    LET perStream == IF streamId \in DOMAIN unread.streams
                     THEN Some(unread.streams[streamId])
                     ELSE None
        perTopic == IF perStream # None /\ topic \in DOMAIN perStream[1]
                    THEN Some(perStream[1][topic])
                    ELSE None
        size == IF perTopic # None THEN Some(Len(perTopic[1])) ELSE None
    IN IF size # None THEN size[1] ELSE 0

\* ------------------------------------------------------------------------
\* The actions the reducer is given.

\* Every ID the index holds.
idsAt(map, s, t) == Range(getIn(map, s, t, EmptyList))

allIds(map) == UNION {idsAt(map, s, t) : s \in Streams, t \in Topics}

IsStrictlyAscending(list) == \A i \in 1..(Len(list) - 1) : list[i] < list[i + 1]

SeqsUpTo(S, n) == UNION {[1..k -> S] : k \in 0..n}

\* An event's ID list: IDs in any order, none twice.
IdLists == {l \in SeqsUpTo(Ids, MaxLen) : Cardinality(Range(l)) = Len(l)}

\* unread_message_ids of a snapshot triple: sorted (see the comment in
\* REGISTER_COMPLETE), and never empty: the server lists the conversations
\* that have unreads.
UnreadIdLists == {l \in SeqsUpTo(Ids, MaxId) : l # <<>> /\ IsStrictlyAscending(l)}

\* The conversations, in the order a snapshot lists them.
Conversations ==
    <<[stream_id |-> 1, topic |-> "a"], [stream_id |-> 1, topic |-> "b"],
      [stream_id |-> 2, topic |-> "a"], [stream_id |-> 2, topic |-> "b"]>>

\* unread_msgs.streams for the unread messages `where`, which gives each ID
\* the number of its conversation, or 0 when the message is not unread: one
\* triple per conversation that has unreads, a message in one conversation
\* only.
streamsOf(where) ==
    LET unreadIn(c) == {id \in Ids : where[id] = c}
        listed == SelectSeq([c \in 1..Len(Conversations) |-> c],
                            LAMBDA c : unreadIn(c) # {})
    IN [i \in 1..Len(listed) |->
           [stream_id |-> Conversations[listed[i]].stream_id,
            topic |-> Conversations[listed[i]].topic,
            unread_message_ids |->
                CHOOSE l \in UnreadIdLists : Range(l) = unreadIn(listed[i])]]

StreamsData == {streamsOf(where) : where \in [Ids -> 0..Len(Conversations)]}

RegisterCompleteActions ==
    {[type |-> "REGISTER_COMPLETE", data |-> [unread_msgs |-> None]],
     [type |-> "REGISTER_COMPLETE", data |-> [unread_msgs |-> Some([streams |-> None])]]}
    \cup {[type |-> "REGISTER_COMPLETE",
           data |-> [unread_msgs |-> Some([streams |-> Some(d)])]] : d \in StreamsData}

FlagLists == {<<>>, <<"read">>, <<"mentioned">>, <<"mentioned", "read">>}

Messages ==
    [type : {"stream"}, stream_id : Streams, subject : Topics, id : Ids,
     flags : {None} \cup {Some(f) : f \in FlagLists}]
    \cup [type : {"private"}, id : Ids, flags : {None} \cup {Some(f) : f \in FlagLists}]

MessageDetails ==
    [type : {"stream"}, stream_id : Streams, topic : Topics] \cup [type : {"private"}]

\* With all = true the server sends no message_details; a few such events are
\* kept, every ID with one and the same detail.
FlagsActions ==
    {[type |-> "EVENT_UPDATE_MESSAGE_FLAGS", flag |-> f, all |-> al, op |-> o,
      messages |-> m, message_details |-> None] :
        f \in {"read", "starred"}, al \in BOOLEAN, o \in {"add", "remove"},
        m \in IdLists}
    \cup UNION {UNION {
        {[type |-> "EVENT_UPDATE_MESSAGE_FLAGS", flag |-> "read", all |-> FALSE,
          op |-> "remove", messages |-> m, message_details |-> Some(d)] :
            d \in [D -> MessageDetails]}
        : D \in SUBSET Range(m)} : m \in IdLists}
    \cup {[type |-> "EVENT_UPDATE_MESSAGE_FLAGS", flag |-> "read", all |-> TRUE,
           op |-> o, messages |-> m,
           message_details |-> Some([id \in Range(m) |-> d])] :
            o \in {"add", "remove"}, m \in IdLists, d \in MessageDetails}

Moves ==
    [orig_stream_id : Streams, orig_topic : Topics,
     new_stream_id : Streams, new_topic : Topics]

UpdateMessageActions ==
    {[type |-> "EVENT_UPDATE_MESSAGE", event |-> [message_ids |-> m], move |-> mv] :
        m \in IdLists, mv \in {None} \cup {Some(x) : x \in Moves}}

\* New message IDs only grow: a new message's ID is above every ID seen.
FreshId(map, id) == \A other \in allIds(map) : other < id

\* message_details says where the server holds each message: an ID the index
\* holds is routed to the conversation it is held in.
RoutedAsHeld(map, act) ==
    act.message_details # None =>
        \A id \in DOMAIN act.message_details[1] :
            act.message_details[1][id].type = "stream" =>
                \A s \in Streams, t \in Topics :
                    id \in idsAt(map, s, t) =>
                        /\ s = act.message_details[1][id].stream_id
                        /\ t = act.message_details[1][id].topic

\* ------------------------------------------------------------------------
\* The store: one reducer call per action.

NoAction == [type |-> "@@INIT"]

Init ==
    /\ state = initialStreamsState
    /\ action = NoAction
    /\ prev = initialStreamsState
    /\ outcome = "returned"
    /\ pc = "idle"
    /\ same = TRUE
    /\ hasState = FALSE
    /\ nextState = None
    /\ returned = None
    /\ count = None
    /\ unionIn = <<EmptyList, EmptyList>>
    /\ unionOut = None

Dispatch(act) ==
    /\ pc = "idle"
    /\ action' = act
    /\ prev' = state
    /\ IF streamsReducerThrows(state, act)
       THEN state' = state /\ outcome' = "threw" /\ same' = TRUE
       ELSE /\ state' = streamsReducer(state, act)
            /\ outcome' = "returned"
            /\ same' \in sameInstance(state, act)
    /\ pc' = "done"
    /\ UNCHANGED <<hasState, nextState, returned, count, unionIn, unionOut>>

ResetAccountData == Dispatch([type |-> "RESET_ACCOUNT_DATA"])

RegisterComplete ==
    /\ pc = "idle"
    /\ \E act \in RegisterCompleteActions : Dispatch(act)

MessageFetchComplete == Dispatch([type |-> "MESSAGE_FETCH_COMPLETE"])

EventNewMessage ==
    /\ pc = "idle"
    /\ \E message \in Messages :
        /\ FreshId(state, message.id)
        /\ Dispatch([type |-> "EVENT_NEW_MESSAGE", message |-> message])

EventMessageDelete ==
    /\ pc = "idle"
    /\ \E m \in IdLists :
        Dispatch([type |-> "EVENT_MESSAGE_DELETE", messageIds |-> m])

EventUpdateMessageFlags ==
    /\ pc = "idle"
    /\ \E act \in FlagsActions : RoutedAsHeld(state, act) /\ Dispatch(act)

EventUpdateMessage ==
    /\ pc = "idle"
    /\ \E act \in UpdateMessageActions : Dispatch(act)

OtherAction == Dispatch([type |-> "EVENT_USER_ADD"])

\* A selector reads the count of a conversation off the state the store holds.
GetUnreadCountForTopic ==
    /\ pc = "idle"
    /\ \E streamId \in Streams, topic \in Topics :
        count' = Some([streamId |-> streamId, topic |-> topic,
                       result |-> getUnreadCountForTopic([streams |-> state],
                                                         streamId, topic)])
    /\ pc' = "got"
    /\ UNCHANGED <<state, action, prev, outcome, same, hasState, nextState,
                   returned, unionIn, unionOut>>

\* The call is over; the store waits for the next action.
NextAction ==
    /\ pc \in {"done", "got"}
    /\ pc' = "idle"
    /\ action' = NoAction
    /\ prev' = state
    /\ outcome' = "returned"
    /\ same' = TRUE
    /\ count' = None
    /\ UNCHANGED <<state, hasState, nextState, returned, unionIn, unionOut>>

Next ==
    \/ ResetAccountData
    \/ RegisterComplete
    \/ MessageFetchComplete
    \/ EventNewMessage
    \/ EventMessageDelete
    \/ EventUpdateMessageFlags
    \/ EventUpdateMessage
    \/ OtherAction
    \/ GetUnreadCountForTopic
    \/ NextAction

Spec == Init /\ [][Next]_vars

\* ------------------------------------------------------------------------
\* setUnion on its own: any two sorted, duplicate-free lists.

SortedLists == {l \in SeqsUpTo(1..MaxElem, MaxElem) : IsStrictlyAscending(l)}

InitUnion ==
    /\ state = initialStreamsState
    /\ action = NoAction
    /\ prev = initialStreamsState
    /\ outcome = "returned"
    /\ pc = "union"
    /\ same = TRUE
    /\ hasState = FALSE
    /\ nextState = None
    /\ returned = None
    /\ count = None
    /\ unionIn \in SortedLists \X SortedLists
    /\ unionOut = None

CallSetUnion ==
    /\ pc = "union"
    /\ unionOut = None
    /\ unionOut' = Some(setUnion(unionIn[1], unionIn[2]))
    /\ UNCHANGED <<state, action, prev, outcome, pc, same, hasState, nextState,
                   returned, count, unionIn>>

NextUnion == CallSetUnion

SpecUnion == InitUnion /\ [][NextUnion]_vars

\* ------------------------------------------------------------------------
\* The aggregate reducer: `reducer`, over the four sub-reducers.
\*
\* An object a sub-reducer returns is named by what `===` can tell of it:
\* "prior" is the object held in the same field of `state`, "new" is any
\* other object.

\* Object.keys(nextState)
Keys == {"streams", "pms", "huddles", "mentions"}

\* The three sibling reducers decide on their own whether the action matters
\* to them, and return their prior state, the same reference, or a new
\* structure; given no prior state they return one they make.
unreadPmsReducer(exists) == IF exists THEN {"prior", "new"} ELSE {"new"}

unreadHuddlesReducer(exists) == IF exists THEN {"prior", "new"} ELSE {"new"}

unreadMentionsReducer(exists) == IF exists THEN {"prior", "new"} ELSE {"new"}

\* `reducer` with `some` where the source has `every`.
reducer_SomeKey(exists, results) ==
    IF exists /\ \E key \in Keys : results[key] = "prior"
    THEN [instance |-> "state", streams |-> "prior", pms |-> "prior",
          huddles |-> "prior", mentions |-> "prior"]
    ELSE [instance |-> "nextState", streams |-> results.streams,
          pms |-> results.pms, huddles |-> results.huddles,
          mentions |-> results.mentions]

\* What `reducer` returns once nextState holds the four results: `state`
\* itself, whose fields are its own, or nextState.
reducer(exists, results) ==
    IF exists /\ \A key \in Keys : results[key] = "prior"
    THEN [instance |-> "state", streams |-> "prior", pms |-> "prior",
          huddles |-> "prior", mentions |-> "prior"]
    ELSE [instance |-> "nextState", streams |-> results.streams,
          pms |-> results.pms, huddles |-> results.huddles,
          mentions |-> results.mentions]

\* One call of `reducer`. streamsReducer is given state?.streams, which is
\* its default initialStreamsState when `state` is void; when it throws, so
\* does `reducer`, and the store keeps what it held.
ReducerCall(act) ==
    /\ pc = "idle"
    /\ action' = act
    /\ prev' = state
    /\ IF streamsReducerThrows(state, act)
       THEN /\ state' = state
            /\ outcome' = "threw"
            /\ same' = TRUE
            /\ nextState' = None
            /\ returned' = None
       ELSE \E streamsSame \in sameInstance(state, act),
               pms \in unreadPmsReducer(hasState),
               huddles \in unreadHuddlesReducer(hasState),
               mentions \in unreadMentionsReducer(hasState) :
                LET results ==
                        [streams |-> IF hasState /\ streamsSame THEN "prior" ELSE "new",
                         pms |-> pms, huddles |-> huddles, mentions |-> mentions]
                    result == reducer(hasState, results)
                IN /\ same' = streamsSame
                   /\ nextState' = Some(results)
                   /\ returned' = Some(result)
                   /\ outcome' = "returned"
                   /\ state' = IF result.instance = "state"
                               THEN state
                               ELSE streamsReducer(state, act)
    /\ pc' = "done"
    /\ UNCHANGED <<hasState, count, unionIn, unionOut>>

\* The aggregate is driven by the actions that make streamsReducer return
\* its state, return another index, and throw.
ReduceResetAccountData == ReducerCall([type |-> "RESET_ACCOUNT_DATA"])

ReduceMessageFetchComplete == ReducerCall([type |-> "MESSAGE_FETCH_COMPLETE"])

ReduceEventNewMessage ==
    /\ pc = "idle"
    /\ \E message \in Messages :
        /\ FreshId(state, message.id)
        /\ ReducerCall([type |-> "EVENT_NEW_MESSAGE", message |-> message])

ReduceEventMessageDelete ==
    /\ pc = "idle"
    /\ \E m \in IdLists :
        ReducerCall([type |-> "EVENT_MESSAGE_DELETE", messageIds |-> m])

ReduceOtherAction == ReducerCall([type |-> "EVENT_USER_ADD"])

\* The call is over; the store holds the aggregate it returned, if any.
NextReducerCall ==
    /\ pc = "done"
    /\ pc' = "idle"
    /\ action' = NoAction
    /\ prev' = state
    /\ outcome' = "returned"
    /\ same' = TRUE
    /\ hasState' = (hasState \/ outcome = "returned")
    /\ nextState' = None
    /\ returned' = None
    /\ UNCHANGED <<state, count, unionIn, unionOut>>

NextAggregate ==
    \/ ReduceResetAccountData
    \/ ReduceMessageFetchComplete
    \/ ReduceEventNewMessage
    \/ ReduceEventMessageDelete
    \/ ReduceOtherAction
    \/ NextReducerCall

SpecAggregate == Init /\ [][NextAggregate]_vars

\* ------------------------------------------------------------------------
\* What the claims are stated with.

HasTopic(map, s, t) == s \in DOMAIN map /\ t \in DOMAIN map[s]

\* The unread IDs of (s, t); an absent entry is no unread IDs.
ListAt(map, s, t) == IF HasTopic(map, s, t) THEN map[s][t] ELSE <<>>

SetAt(map, s, t) == Range(ListAt(map, s, t))

Without(list, D) == SelectSeq(list, LAMBDA id : id \notin D)

Called(type) == pc = "done" /\ action.type = type

\* ------------------------------------------------------------------------
\* C1: in every reachable state of the index, every (streamId, topic) entry's
\* ID list is strictly ascending (so it has no duplicates).
C1_StrictlyAscending ==
    \A s \in DOMAIN state : \A t \in DOMAIN state[s] :
        \A i \in 1..(Len(state[s][t]) - 1) : state[s][t][i] < state[s][t][i + 1]

\* A move has put an ID in front of the IDs its destination held already.
C1_Witness ==
    /\ Called("EVENT_UPDATE_MESSAGE")
    /\ action.move # None
    /\ LET move == action.move[1]
           before == ListAt(prev, move.new_stream_id, move.new_topic)
           after == ListAt(state, move.new_stream_id, move.new_topic)
       IN /\ <<move.orig_stream_id, move.orig_topic>>
                # <<move.new_stream_id, move.new_topic>>
          /\ before # <<>>
          /\ Len(after) > Len(before)
          /\ after[1] < before[1]

C3_SetUnion ==
    unionOut # None =>
        /\ IsStrictlyAscending(unionOut[1])
        /\ Range(unionOut[1]) = Range(unionIn[1]) \cup Range(unionIn[2])

\* setUnion has merged two lists that interleave and share an element.
C3_Witness ==
    /\ unionOut # None
    /\ Len(unionIn[1]) >= 2 /\ Len(unionIn[2]) >= 2
    /\ unionIn[1][1] < unionIn[2][1] /\ unionIn[2][1] < unionIn[1][2]
    /\ Range(unionIn[1]) \cap Range(unionIn[2]) # {}
    /\ Len(unionOut[1]) < Len(unionIn[1]) + Len(unionIn[2])

\* C4: a message delete with IDs D, and a flag update with flag "read",
\* all = false and op other than "remove" with messages D, leaves every
\* (stream, topic) with its prior list less the members of D, in order, and
\* an entry exactly where that list is not empty.
IsDeletion ==
    \/ Called("EVENT_MESSAGE_DELETE")
    \/ /\ Called("EVENT_UPDATE_MESSAGE_FLAGS")
       /\ action.flag = "read" /\ ~action.all /\ action.op # "remove"

DeletedIds ==
    IF action.type = "EVENT_MESSAGE_DELETE"
    THEN Range(action.messageIds)
    ELSE Range(action.messages)

MatchingIds ==
    SetAt(prev, action.move[1].orig_stream_id, action.move[1].orig_topic)
        \cap Range(action.event.message_ids)

C5_Move ==
    (Called("EVENT_UPDATE_MESSAGE") /\ action.move # None) =>
        LET move == action.move[1]
            orig == <<move.orig_stream_id, move.orig_topic>>
            dest == <<move.new_stream_id, move.new_topic>>
        IN /\ outcome = "returned"
           /\ MatchingIds = {} => state = prev
           /\ MatchingIds # {} =>
                \A s \in Streams, t \in Topics :
                    /\ SetAt(state, s, t) =
                          (SetAt(prev, s, t)
                              \ (IF <<s, t>> = orig THEN MatchingIds ELSE {}))
                          \cup (IF <<s, t>> = dest THEN MatchingIds ELSE {})
                    /\ IsStrictlyAscending(ListAt(state, s, t))
                    /\ HasTopic(state, s, t) <=> SetAt(state, s, t) # {}
                    /\ <<s, t>> \notin {orig, dest}
                          => ListAt(state, s, t) = ListAt(prev, s, t)

\* A move has taken some of the origin's IDs, left the others, and put an ID
\* in front of one the destination held; the event named an ID held elsewhere.
C5_Witness ==
    /\ Called("EVENT_UPDATE_MESSAGE")
    /\ action.move # None
    /\ LET move == action.move[1]
           before == ListAt(prev, move.new_stream_id, move.new_topic)
           after == ListAt(state, move.new_stream_id, move.new_topic)
       IN /\ <<move.orig_stream_id, move.orig_topic>>
                # <<move.new_stream_id, move.new_topic>>
          /\ MatchingIds # {}
          /\ HasTopic(state, move.orig_stream_id, move.orig_topic)
          /\ before # <<>>
          /\ after[1] \in MatchingIds
          /\ Range(action.event.message_ids) \ MatchingIds # {}

\* C6: a flag update with flag "read", all = false, op "remove" and
\* message_details leaves every (stream, topic) with the strictly ascending
\* list of its prior IDs and the event's IDs whose detail is a stream message
\* of that (stream, topic), an entry being created where there was none; the
\* order of the event's message list does not matter: the event with its list
\* in ascending order gives the same index.
IsMarkUnread ==
    /\ Called("EVENT_UPDATE_MESSAGE_FLAGS")
    /\ action.flag = "read" /\ ~action.all /\ action.op = "remove"

RoutedTo(s, t) ==
    {id \in Range(action.messages) :
        /\ id \in DOMAIN action.message_details[1]
        /\ action.message_details[1][id].type = "stream"
        /\ action.message_details[1][id].stream_id = s
        /\ action.message_details[1][id].topic = t}

C6_MarkUnread ==
    (IsMarkUnread /\ action.message_details # None) =>
        /\ outcome = "returned"
        /\ \A s \in Streams, t \in Topics :
            /\ SetAt(state, s, t) = SetAt(prev, s, t) \cup RoutedTo(s, t)
            /\ IsStrictlyAscending(ListAt(state, s, t))
            /\ HasTopic(state, s, t) <=> (HasTopic(prev, s, t) \/ RoutedTo(s, t) # {})
        /\ \A s \in Streams :
            s \in DOMAIN state <=> \E t \in Topics : HasTopic(state, s, t)
        /\ streamsReducer(prev, [action EXCEPT !.messages = sortList(action.messages)])
              = state

\* IDs delivered in descending order have joined a topic that held an ID
\* between them, and a topic with no entry has got one.
C6_Witness ==
    /\ IsMarkUnread
    /\ action.message_details # None
    /\ Len(action.messages) >= 2
    /\ action.messages[1] > action.messages[2]
    /\ \E s \in Streams, t \in Topics :
          /\ HasTopic(prev, s, t)
          /\ RoutedTo(s, t) = Range(action.messages)
          /\ Len(ListAt(state, s, t)) = Len(ListAt(prev, s, t)) + 2
          /\ ListAt(state, s, t)[1] = action.messages[2]

\* C7: a new stream message whose flags lack "read" leaves the index as it
\* was but for its ID, appended to the list of (stream_id, subject), the
\* entries being created if absent; a new message flagged read, or not a
\* stream message, leaves the index unchanged.
AppendsId ==
    /\ action.message.type = "stream"
    /\ action.message.flags # None
    /\ "read" \notin Range(action.message.flags[1])

C7_NewMessage ==
    (Called("EVENT_NEW_MESSAGE")
        /\ (action.message.type # "stream" \/ action.message.flags # None)) =>
        /\ outcome = "returned"
        /\ AppendsId =>
            /\ \A s \in Streams, t \in Topics :
                /\ ListAt(state, s, t) =
                      IF <<s, t>> = <<action.message.stream_id, action.message.subject>>
                      THEN Append(ListAt(prev, s, t), action.message.id)
                      ELSE ListAt(prev, s, t)
                /\ HasTopic(state, s, t) <=> ListAt(state, s, t) # <<>>
            /\ DOMAIN state = DOMAIN prev \cup {action.message.stream_id}
        /\ ~AppendsId => state = prev

\* A new unread message has been appended to a topic that held IDs, and one
\* has created its topic.
C7_Witness ==
    /\ Called("EVENT_NEW_MESSAGE")
    /\ AppendsId
    /\ HasTopic(prev, action.message.stream_id, action.message.subject)
    /\ Len(ListAt(state, action.message.stream_id, action.message.subject)) >= 2
    /\ \E t \in Topics : HasTopic(prev, action.message.stream_id, t)
                            /\ t # action.message.subject

\* C8: a registration snapshot discards the prior index: the index holds the
\* IDs of the snapshot's triples, each list under its triple's stream and
\* topic, and nothing else; with no unread_msgs.streams it is empty.
SnapshotData ==
    IF action.data.unread_msgs = None \/ action.data.unread_msgs[1].streams = None
    THEN <<>>
    ELSE action.data.unread_msgs[1].streams[1]

C8_Register ==
    Called("REGISTER_COMPLETE") =>
        /\ outcome = "returned"
        /\ \A i \in 1..Len(SnapshotData) :
              /\ HasTopic(state, SnapshotData[i].stream_id, SnapshotData[i].topic)
              /\ state[SnapshotData[i].stream_id][SnapshotData[i].topic]
                    = SnapshotData[i].unread_message_ids
        /\ \A s \in DOMAIN state : \A t \in DOMAIN state[s] :
              \E i \in 1..Len(SnapshotData) :
                  SnapshotData[i].stream_id = s /\ SnapshotData[i].topic = t
        /\ SnapshotData = <<>> => state = initialStreamsState

\* A snapshot of two topics of one stream has replaced an index that held an
\* ID the snapshot lacks, under a stream the snapshot lacks.
C8_Witness ==
    /\ Called("REGISTER_COMPLETE")
    /\ Len(SnapshotData) = 2
    /\ SnapshotData[1].stream_id = SnapshotData[2].stream_id
    /\ \E s \in DOMAIN prev : s \notin DOMAIN state
    /\ \E s \in Streams, t \in Topics :
          \E id \in SetAt(prev, s, t) :
              \A s2 \in Streams, t2 \in Topics : id \notin SetAt(state, s2, t2)

\* C9: a flag update with flag "read", op "remove" and all = false that has
\* no message_details leaves the index unchanged, and the reducer returns.
C9_NoDetails ==
    (IsMarkUnread /\ action.message_details = None) =>
        state = prev /\ outcome = "returned"

\* Such an event has named an ID the index holds and one it does not.
C9_Witness ==
    /\ IsMarkUnread
    /\ action.message_details = None
    /\ \E s \in Streams, t \in Topics :
          SetAt(state, s, t) \cap Range(action.messages) # {}
    /\ \E id \in Range(action.messages) :
          \A s \in Streams, t \in Topics : id \notin SetAt(state, s, t)

\* C10: a new stream message without flags makes the reducer throw, and the
\* index stays as it was; a new message that is not a stream message never
\* makes it throw, with or without flags.
C10_Invariant ==
    Called("EVENT_NEW_MESSAGE") =>
        /\ (action.message.type = "stream" /\ action.message.flags = None)
              => (outcome = "threw" /\ state = prev)
        /\ action.message.type # "stream" => outcome = "returned"

\* The reducer has thrown on a new stream message, with a non-empty index.
C10_Witness ==
    /\ Called("EVENT_NEW_MESSAGE")
    /\ outcome = "threw"
    /\ action.message.type = "stream"
    /\ state # initialStreamsState

\* A new private message without flags has been handled.
C10_WitnessPrivate ==
    /\ Called("EVENT_NEW_MESSAGE")
    /\ action.message.type = "private"
    /\ action.message.flags = None
    /\ outcome = "returned"

\* ------------------------------------------------------------------------
\* C11: an account reset yields the empty index from any prior index, and so
\* does a flag update with flag "read" and all = true, whatever its op, its
\* message list and its message_details.
IsReadAll ==
    /\ Called("EVENT_UPDATE_MESSAGE_FLAGS")
    /\ action.flag = "read"
    /\ action.all

C11_Emptied ==
    (Called("RESET_ACCOUNT_DATA") \/ IsReadAll) =>
        /\ outcome = "returned"
        /\ state = initialStreamsState
        /\ allIds(state) = {}

\* A read-all with op "remove", messages and stream message_details, on an
\* index that held unreads.
C11_Witness ==
    /\ IsReadAll
    /\ action.op = "remove"
    /\ action.messages # <<>>
    /\ action.message_details # None
    /\ \E id \in DOMAIN action.message_details[1] :
           action.message_details[1][id].type = "stream"
    /\ prev # initialStreamsState
    /\ state = initialStreamsState

\* ------------------------------------------------------------------------
\* C12: deleting is idempotent: the message-delete event for D applied to the
\* index it has produced leaves that index as it is, for every reachable
\* index and every D.
C12_DeleteIdempotent ==
    Called("EVENT_MESSAGE_DELETE") =>
        /\ state = streamsReducer(prev, action)
        /\ ~streamsReducerThrows(state, action)
        /\ streamsReducer(state, action) = state

\* The first application took two IDs out of one list and left one behind.
C12_Witness ==
    /\ Called("EVENT_MESSAGE_DELETE")
    /\ \E s \in Streams, t \in Topics :
           /\ Cardinality(SetAt(prev, s, t) \cap DeletedIds) >= 2
           /\ SetAt(state, s, t) # {}
    /\ streamsReducer(state, action) = state

\* ------------------------------------------------------------------------
\* C13: an irrelevant event leaves the index unchanged, and what the reducer
\* returns is the state it was given: a flag update whose flag is not "read",
\* MESSAGE_FETCH_COMPLETE, an update-message event without a move, a new
\* message that is not a stream message, an action of a kind not handled.
HandledTypes ==
    {"RESET_ACCOUNT_DATA", "REGISTER_COMPLETE", "MESSAGE_FETCH_COMPLETE",
     "EVENT_NEW_MESSAGE", "EVENT_MESSAGE_DELETE", "EVENT_UPDATE_MESSAGE_FLAGS",
     "EVENT_UPDATE_MESSAGE"}

IsIrrelevant ==
    /\ pc = "done"
    /\ \/ action.type = "EVENT_UPDATE_MESSAGE_FLAGS" /\ action.flag # "read"
       \/ action.type = "MESSAGE_FETCH_COMPLETE"
       \/ action.type = "EVENT_UPDATE_MESSAGE" /\ action.move = None
       \/ action.type = "EVENT_NEW_MESSAGE" /\ action.message.type # "stream"
       \/ action.type \notin HandledTypes

C13_Irrelevant ==
    IsIrrelevant =>
        /\ outcome = "returned"
        /\ state = prev
        /\ same

\* A historical fetch completes while the index holds unreads.
C13_Witness ==
    /\ Called("MESSAGE_FETCH_COMPLETE")
    /\ allIds(prev) # {}
    /\ state = prev
    /\ same

\* A flag update for a flag other than "read" naming unread messages.
C13_WitnessFlag ==
    /\ Called("EVENT_UPDATE_MESSAGE_FLAGS")
    /\ action.flag # "read"
    /\ Range(action.messages) \cap allIds(prev) # {}
    /\ state = prev
    /\ same

\* ------------------------------------------------------------------------
\* C14: `reducer` passes the action to all four sub-reducers; given a prior
\* aggregate and four results each identical to the prior aggregate's field,
\* it returns the prior aggregate itself, and otherwise a new aggregate whose
\* four fields are exactly the four results.
AllPrior == \A key \in Keys : nextState[1][key] = "prior"

C14_Aggregate ==
    (pc = "done" /\ outcome = "returned" /\ nextState # None) =>
        /\ returned # None
        /\ Keys \subseteq DOMAIN nextState[1]
        /\ (nextState[1].streams = "prior") = (hasState /\ same)
        /\ IF hasState /\ AllPrior
           THEN /\ returned[1].instance = "state"
                /\ state = prev
           ELSE /\ returned[1].instance = "nextState"
                /\ \A key \in Keys : returned[1][key] = nextState[1][key]
                /\ state = streamsReducer(prev, action)

\* Nothing changed in any of the four: the prior aggregate comes back.
C14_Witness ==
    /\ pc = "done" /\ nextState # None
    /\ hasState /\ AllPrior
    /\ allIds(prev) # {}
    /\ returned[1].instance = "state"

\* One sibling alone made a new structure: a new aggregate comes back.
C14_WitnessNew ==
    /\ pc = "done" /\ nextState # None
    /\ hasState
    /\ nextState[1] = [streams |-> "prior", pms |-> "prior",
                       huddles |-> "prior", mentions |-> "new"]
    /\ returned[1].instance = "nextState"

\* No prior aggregate: a new aggregate comes back.
C14_WitnessVoid ==
    /\ pc = "done" /\ nextState # None
    /\ ~hasState
    /\ returned[1].instance = "nextState"

\* ------------------------------------------------------------------------
\* C15: on strictly ascending lists setUnion(A, A) = A, setUnion(A, []) = A,
\* and setUnion(A, B) has the elements of setUnion(B, A).
C15_SetUnionLaws ==
    unionOut # None =>
        /\ unionIn[1] = unionIn[2] => unionOut[1] = unionIn[1]
        /\ unionIn[2] = EmptyList => unionOut[1] = unionIn[1]
        /\ Range(unionOut[1]) = Range(setUnion(unionIn[2], unionIn[1]))

\* setUnion(A, A) was called with an A of several elements.
C15_Witness ==
    /\ unionOut # None
    /\ unionIn[1] = unionIn[2]
    /\ Len(unionIn[1]) >= 2
    /\ unionOut[1] = unionIn[1]

\* setUnion(A, B) was called with lists that overlap in part.
C15_WitnessCommutes ==
    /\ unionOut # None
    /\ Range(unionIn[1]) \ Range(unionIn[2]) # {}
    /\ Range(unionIn[2]) \ Range(unionIn[1]) # {}
    /\ Range(unionIn[1]) \cap Range(unionIn[2]) # {}
    /\ unionOut[1] = setUnion(unionIn[2], unionIn[1])

\* ------------------------------------------------------------------------
\* C16: getUnreadCountForTopic returns the length of the list stored under
\* (streamId, topic), and zero when the stream entry or the topic entry is
\* absent.
C16_Count ==
    pc = "got" =>
        LET streamId == count[1].streamId
            topic == count[1].topic
        IN IF streamId \notin DOMAIN state THEN count[1].result = 0
           ELSE IF topic \notin DOMAIN state[streamId] THEN count[1].result = 0
           ELSE count[1].result = Len(state[streamId][topic])

\* The count of a conversation with several unreads.
C16_Witness ==
    /\ pc = "got"
    /\ HasTopic(state, count[1].streamId, count[1].topic)
    /\ Len(state[count[1].streamId][count[1].topic]) >= 2
    /\ count[1].result = Len(state[count[1].streamId][count[1].topic])

\* The count of a topic absent from a stream that has another topic.
C16_WitnessNoTopic ==
    /\ pc = "got"
    /\ count[1].streamId \in DOMAIN state
    /\ count[1].topic \notin DOMAIN state[count[1].streamId]
    /\ count[1].result = 0

\* The count of a topic of a stream absent from a non-empty index.
C16_WitnessNoStream ==
    /\ pc = "got"
    /\ state # initialStreamsState
    /\ count[1].streamId \notin DOMAIN state
    /\ count[1].result = 0

\* ------------------------------------------------------------------------
\* C17: in every reachable state of the index, each message ID is in the
\* list of at most one (stream, topic) entry.
Holders(map, id) ==
    {c \in Streams \X Topics : id \in idsAt(map, c[1], c[2])}

IsMove == Called("EVENT_UPDATE_MESSAGE") /\ action.move # None

SameConversation ==
    /\ action.move[1].orig_stream_id = action.move[1].new_stream_id
    /\ action.move[1].orig_topic = action.move[1].new_topic

C18_MoveConserves ==
    IsMove =>
        /\ outcome = "returned"
        /\ allIds(state) = allIds(prev)
        /\ SameConversation => state = prev

\* A move within one conversation took the first of its IDs, not the last,
\* out of the list and put it back.
C18_Witness ==
    /\ IsMove
    /\ SameConversation
    /\ LET list == ListAt(prev, action.move[1].orig_stream_id,
                          action.move[1].orig_topic)
       IN /\ Len(list) >= 2
          /\ list[1] \in MatchingIds
          /\ list[Len(list)] \notin MatchingIds
    /\ ~same
    /\ state = prev

\* A move between two conversations emptied the origin.
C18_WitnessAcross ==
    /\ IsMove
    /\ ~SameConversation
    /\ MatchingIds # {}
    /\ ~HasTopic(state, action.move[1].orig_stream_id, action.move[1].orig_topic)
    /\ state # prev
    /\ allIds(state) = allIds(prev)

\* ------------------------------------------------------------------------
\* C19: mark-unread then mark-read is a round trip: after a flag update
\* (flag "read", op "remove") for IDs M none of which the index held, with a
\* stream message_details entry for every ID, a flag update (flag "read",
\* op "add") for the same M gives back the index held before the first.
IsMarkUnreadOfNew ==
    /\ Called("EVENT_UPDATE_MESSAGE_FLAGS")
    /\ action.flag = "read" /\ ~action.all /\ action.op = "remove"
    /\ action.message_details # None
    /\ Range(action.messages) \cap allIds(prev) = {}
    /\ \A id \in Range(action.messages) :
           /\ id \in DOMAIN action.message_details[1]
           /\ action.message_details[1][id].type = "stream"

MarkRead(messages) ==
    [type |-> "EVENT_UPDATE_MESSAGE_FLAGS", flag |-> "read", all |-> FALSE,
     op |-> "add", messages |-> messages, message_details |-> None]

C19_RoundTrip ==
    IsMarkUnreadOfNew =>
        /\ outcome = "returned"
        /\ MarkRead(action.messages) \in FlagsActions
        /\ ~streamsReducerThrows(state, MarkRead(action.messages))
        /\ streamsReducer(state, MarkRead(action.messages)) = prev

\* Two IDs were marked unread, one into a conversation that held unreads and
\* one into a conversation that held none; marking them read undoes both.
C19_Witness ==
    /\ IsMarkUnreadOfNew
    /\ \E id1, id2 \in Range(action.messages) :
           LET d1 == action.message_details[1][id1]
               d2 == action.message_details[1][id2]
           IN /\ HasTopic(prev, d1.stream_id, d1.topic)
              /\ d2.stream_id \notin DOMAIN prev
    /\ state # prev
    /\ streamsReducer(state, MarkRead(action.messages)) = prev

\* ------------------------------------------------------------------------
\* C20: only a new message, a mark-unread (flag "read", op "remove") and a
\* registration snapshot can introduce an unread ID: every other step leaves
\* the set of IDs held within the set held before it, so an index that has
\* been emptied stays empty until one of the three is applied.
Introduces(act) ==
    \/ act.type = "EVENT_NEW_MESSAGE"
    \/ act.type = "REGISTER_COMPLETE"
    \/ /\ act.type = "EVENT_UPDATE_MESSAGE_FLAGS"
       /\ act.flag = "read" /\ ~act.all /\ act.op = "remove"

C20_Introduce ==
    [][\/ allIds(state') \subseteq allIds(state)
       \/ pc' = "done" /\ Introduces(action')]_vars

\* A read-all has emptied an index that held unreads.
C20_Witness ==
    /\ IsReadAll
    /\ allIds(prev) # {}
    /\ allIds(state) = {}

\* An empty index was given a move that names IDs, and stays empty.
C20_WitnessStaysEmpty ==
    /\ IsMove
    /\ action.event.message_ids # <<>>
    /\ prev = initialStreamsState
    /\ state = initialStreamsState
====
